---- MODULE Spec2Model ----
(***************************************************************************)
(* Document processing and storage lifecycle of the S3 file storage        *)
(* module: the Document record and its transition methods (models.py),     *)
(* the Celery task process_document with its retry and failure paths, the  *)
(* periodic cleanup_temp_files sweep (tasks.py) and the API operations     *)
(* that create, verify, reprocess and reject documents (views.py,          *)
(* serializers.py).                                                        *)
(*                                                                         *)
(* Optional values (Python None) are sequences of length at most one:      *)
(* None is << >> and a present value v is << v >>.  Time is counted in     *)
(* hours, the unit of the sweep's stall threshold.                         *)
(***************************************************************************)
EXTENDS Integers, Sequences, FiniteSets, TLC

VARIABLES
    now,                \* timezone.now(), in hours
    db,                 \* the Document table: id -> row, or NoDoc
    store,              \* the object store: the text layer of the object of each document
    jobs,               \* process_document deliveries (one slot each): position, retries, in-memory copy
    delivered,          \* process_document messages sent so far
    notifications,      \* notify_case_officer jobs enqueued, per document
    sweep,              \* cleanup_temp_files: position and the rows its query loaded
    last_writer,        \* history: which actor wrote each row last (0: an API call or the sweep)
    verified_snapshot,  \* history: extraction result a row held when it first became verified
    today,              \* timezone.now(), in days (the clock of the archival task)
    clients,            \* the Client table: status and updated_at of each case
    files,              \* the storage columns of the Document table: id -> row, or NoDoc
    s3,                 \* the objects of the bucket: key -> bytes
    archive,            \* archive_old_documents: position, the rows its queries loaded, its count
    returned            \* the value the last call of a routing or signing helper returned

\* The archival task reads the storage columns of the documents and the cases,
\* and neither the processing columns (db) nor the jobs; they are kept apart.
\* The helpers read the storage columns and the cases.
storage_vars == <<today, clients, files, s3, archive, returned>>

vars == <<now, db, store, jobs, delivered, notifications, sweep, last_writer, verified_snapshot,
          today, clients, files, s3, archive, returned>>

-----------------------------------------------------------------------------
(* Bounds of the model *)

MaxDocs == 1        \* documents uploaded
MaxJobs == 1        \* process_document deliveries outstanding at once (SpecDup: one more)
MaxDeliveries == 2  \* process_document messages sent in all (the upload's and a reprocess)
MaxTime == 2        \* hours the clock runs
MaxClients == 1     \* cases
MaxFiles == 2       \* documents stored for the archival task
MaxDay == 135       \* days the clock of the archival task runs

DocIds == 1..MaxDocs
ClientIds == 1..MaxClients
FileIds == 1..MaxFiles
JobIds == DOMAIN jobs

-----------------------------------------------------------------------------
(* Values *)

None == << >>
Some(v) == << v >>
NoDoc == << >>

\* Python truthiness of an optional string: neither None nor "".
TruthyText(t) == t # None /\ t[1] # ""
\* Python truthiness of an optional dict: neither None nor {}.
TruthyDict(d) == d # None /\ DOMAIN d[1] # {}

\* Document.STATUS_CHOICES
STATUS_CHOICES == {"pending", "uploaded", "processing", "processed", "verified", "rejected"}

\* Document types and MIME types a document is created with (one per extractor
\* branch that behaves differently, and the blank default of file_type).
DocTypes == {"passport", "bank_statement"}
FileTypes == {"application/pdf", "image/png", ""}

\* Document.DOCUMENT_TYPE_CHOICES
DOCUMENT_TYPE_CHOICES ==
    { "passport", "photo", "birth_certificate", "marriage_certificate",
      "bank_statement", "tax_return", "financial_proof",
      "degree", "transcript", "english_test",
      "employment_letter", "payslip", "resume", "reference_letter",
      "application_form", "visa_application", "police_clearance", "medical",
      "other" }
\* The values of the column document_type: the choices, and a value outside
\* them (the choices are validated by forms and serializers, not by save()).
AllDocTypes == DOCUMENT_TYPE_CHOICES \cup {"unlisted"}
\* Text layers an uploaded PDF can carry (none, or some text).
Contents == {"", "pdf text"}
Users == {"officer"}
Notes == {None, Some(""), Some("ok")}

\* Error codes of a botocore ClientError raised by get_object: the key is absent,
\* access is denied, or the store asks to slow down (transient).
ClientErrorCodes == {"NoSuchKey", "AccessDenied", "SlowDown"}

\* The object of a document after delete_s3_file removed it.
Deleted == <<"", "deleted">>

IMAGE_PLACEHOLDER == "OCR text extraction not implemented yet"

\* len() of the texts of the model
TextLen(t) ==
    CASE t = "" -> 0
      [] t = "pdf text" -> 8
      [] t = IMAGE_PLACEHOLDER -> 39

-----------------------------------------------------------------------------
(* models.py: the Document row and its methods.  A method is the in-memory  *)
(* object after the call; save_fields is what the UPDATE persists.          *)

\* Document.objects.create(...): field defaults
NewDocument(document_type, file_type, t) ==
    [ status             |-> "uploaded",
      document_type      |-> document_type,
      file_type          |-> file_type,
      ai_extracted_data  |-> None,
      ocr_text           |-> None,
      verified_by        |-> None,
      verified_at        |-> None,
      verification_notes |-> None,
      processed_at       |-> None,
      updated_at         |-> Some(t) ]

AllFields == DOMAIN NewDocument("passport", "", 0)

\* Model.save(update_fields=...) at time t: the named columns of the row take
\* the values of the in-memory object, the other columns keep what the table
\* holds.  updated_at = DateTimeField(auto_now=True) is set to the time of the
\* save by every save that writes it, whatever the object held.
save_fields(row, self, update_fields, t) ==
    [f \in AllFields |->
        IF f \notin update_fields THEN row[f]
        ELSE IF f = "updated_at" THEN Some(t)
        ELSE self[f]]

\* Model.save() without update_fields writes every column.
save(self, t) == save_fields(self, self, AllFields, t)

\* A row read into memory.  Every save replaces updated_at (auto_now), so the
\* value read is never used: the in-memory object carries none.
from_db(row) == [row EXCEPT !.updated_at = None]

\* Mutant of MarkProcessingFields: mark_as_processing saves every column.
MarkProcessingEveryField == AllFields

MarkProcessingFields == {"status", "updated_at"}
MarkProcessedFields == {"status", "processed_at", "ai_extracted_data", "ocr_text", "updated_at"}
VerifyFields == {"status", "verified_by", "verified_at", "verification_notes", "updated_at"}

mark_as_processing(self) ==
    [self EXCEPT !.status = "processing"]

\* Mutant of mark_as_processed: the text is not assigned.
mark_as_processed_without_text(self, extracted_data, ocr_text, t) ==
    [self EXCEPT
        !.status = "processed",
        !.processed_at = Some(t),
        !.ai_extracted_data = IF TruthyDict(extracted_data) THEN extracted_data ELSE @]

mark_as_processed(self, extracted_data, ocr_text, t) ==
    [self EXCEPT
        !.status = "processed",
        !.processed_at = Some(t),
        !.ai_extracted_data = IF TruthyDict(extracted_data) THEN extracted_data ELSE @,
        !.ocr_text = IF TruthyText(ocr_text) THEN ocr_text ELSE @]

\* Mutant of verify: the verifier is not assigned.
verify_without_user(self, user, notes, t) ==
    [self EXCEPT
        !.status = "verified",
        !.verified_at = Some(t),
        !.verification_notes = IF TruthyText(notes) THEN notes ELSE @]

\* Mutant of verify: the notes are not assigned.
verify_without_notes(self, user, notes, t) ==
    [self EXCEPT
        !.status = "verified",
        !.verified_by = Some(user),
        !.verified_at = Some(t)]

verify(self, user, notes, t) ==
    [self EXCEPT
        !.status = "verified",
        !.verified_by = Some(user),
        !.verified_at = Some(t),
        !.verification_notes = IF TruthyText(notes) THEN notes ELSE @]

\* Mutant of reset_to_uploaded: the reset writes another status.
reset_to_pending(self) ==
    [self EXCEPT !.status = "pending"]

\* tasks.py: document.status = 'uploaded'  (failure path and sweep)
reset_to_uploaded(self) ==
    [self EXCEPT !.status = "uploaded"]

-----------------------------------------------------------------------------
(* tasks.py: the extractors *)

\* extract_text_from_pdf: the stripped text of the pages, None on any exception
extract_text_from_pdf(file_content, raises) ==
    IF raises THEN None ELSE Some(file_content)

extract_text_from_image(file_content) == Some(IMAGE_PLACEHOLDER)

process_identity_document(file_content, file_type, raises, t) ==
    LET ocr_text == IF file_type = "application/pdf"
                        THEN extract_text_from_pdf(file_content, raises)
                    ELSE IF file_type \in {"image/jpeg", "image/png"}
                        THEN extract_text_from_image(file_content)
                    ELSE None
        base == [document_category |-> "identity", processed_at |-> t]
        extracted_data == IF TruthyText(ocr_text)
                            THEN base @@ [text_length |-> TextLen(ocr_text[1]), has_text |-> TRUE]
                            ELSE base
    IN  <<Some(extracted_data), ocr_text>>

\* process_financial_document, process_educational_document and
\* process_employment_document differ in the category only.
process_pdf_only_document(category, file_content, file_type, raises, t) ==
    LET ocr_text == IF file_type = "application/pdf"
                        THEN extract_text_from_pdf(file_content, raises)
                    ELSE None
    IN  <<Some([document_category |-> category, processed_at |-> t]), ocr_text>>

process_generic_document(file_content, file_type, raises, t) ==
    LET ocr_text == IF file_type = "application/pdf"
                        THEN extract_text_from_pdf(file_content, raises)
                    ELSE IF file_type \in {"image/jpeg", "image/png"}
                        THEN extract_text_from_image(file_content)
                    ELSE None
    IN  <<Some([document_category |-> "generic", processed_at |-> t]), ocr_text>>

\* Mutant of run_extractor: the dispatch follows the sections of
\* DOCUMENT_TYPE_CHOICES (marriage_certificate with the identity documents,
\* reference_letter with the employment documents).
run_extractor_by_section(document_type, file_content, file_type, raises, t) ==
    IF document_type \in {"passport", "photo", "birth_certificate", "marriage_certificate"}
        THEN process_identity_document(file_content, file_type, raises, t)
    ELSE IF document_type \in {"bank_statement", "tax_return", "financial_proof"}
        THEN process_pdf_only_document("financial", file_content, file_type, raises, t)
    ELSE IF document_type \in {"degree", "transcript", "english_test"}
        THEN process_pdf_only_document("educational", file_content, file_type, raises, t)
    ELSE IF document_type \in {"employment_letter", "payslip", "resume", "reference_letter"}
        THEN process_pdf_only_document("employment", file_content, file_type, raises, t)
    ELSE process_generic_document(file_content, file_type, raises, t)

\* process_document: the dispatch on document_type
run_extractor(document_type, file_content, file_type, raises, t) ==
    IF document_type \in {"passport", "photo", "birth_certificate"}
        THEN process_identity_document(file_content, file_type, raises, t)
    ELSE IF document_type \in {"bank_statement", "tax_return", "financial_proof"}
        THEN process_pdf_only_document("financial", file_content, file_type, raises, t)
    ELSE IF document_type \in {"degree", "transcript", "english_test"}
        THEN process_pdf_only_document("educational", file_content, file_type, raises, t)
    ELSE IF document_type \in {"employment_letter", "payslip", "resume"}
        THEN process_pdf_only_document("employment", file_content, file_type, raises, t)
    ELSE process_generic_document(file_content, file_type, raises, t)

\* @shared_task(bind=True, max_retries=3)
max_retries == 3

\* cleanup_temp_files: timedelta(hours=1)
STALL_HOURS == 1

-----------------------------------------------------------------------------
(* Storage: keys are sequences of path segments, a bucket maps keys to bytes *)

\* Client.STATUS_CHOICES: the default, and the status the archival task selects
ClientStatuses == {"inquiry", "completed"}
\* Client.region choices
Regions == {"AU", "IN"}
\* Names of uploaded files (the sanitized base name)
FileNames == {"passport.pdf"}

\* archive_old_documents: timedelta(days=90)
RETENTION_DAYS == 90
\* The clock of the archival task advances by half the retention period, so that
\* a case is seen before, exactly at and after the cutoff.
DaySteps == {RETENTION_DAYS \div 2}

\* Region tags given to the routing: the choices of Client.region, the tags of
\* the factory ('au', 'in'), a mixed case, an unknown tag and the empty string.
RegionTags == {"AU", "IN", "au", "in", "In", "NZ", ""}

\* str.lower() on the tags of the model
lower(tag) ==
    CASE tag = "AU" -> "au"
      [] tag \in {"IN", "In"} -> "in"
      [] tag = "NZ" -> "nz"
      [] OTHER -> tag

\* Mutant of Client_get_storage_backend: the tag is compared in lower case.
Client_get_storage_backend_any_case(region) ==
    IF lower(region) = "in" THEN "IndiaMediaStorage" ELSE "AustraliaMediaStorage"

\* storage_backends.get_storage_backend(region): the factory
get_storage_backend(region) ==
    IF lower(region) = "in" THEN "IndiaMediaStorage" ELSE "AustraliaMediaStorage"

\* Client.get_storage_backend: the backend of a case's region
Client_get_storage_backend(region) ==
    IF region = "IN" THEN "IndiaMediaStorage" ELSE "AustraliaMediaStorage"

\* AustraliaMediaStorage / IndiaMediaStorage: bucket_name and region_name (defaults)
bucket_name(backend) ==
    IF backend = "IndiaMediaStorage" THEN "migration-zone-docs-in" ELSE "migration-zone-docs-au"

region_name(backend) ==
    IF backend = "IndiaMediaStorage" THEN "ap-south-1" ELSE "ap-southeast-2"

\* AustraliaMediaStorage / IndiaMediaStorage: self.location
location(region) ==
    IF region = "IN" THEN <<"documents", "in">> ELSE <<"documents", "au">>

\* What a backend resolves to: its bucket, its region and its prefix.
Backend(backend) ==
    [ bucket_name |-> bucket_name(backend),
      region_name |-> region_name(backend),
      location    |-> location(IF backend = "IndiaMediaStorage" THEN "IN" ELSE "AU") ]

\* settings.AWS_QUERYSTRING_EXPIRE: the configured lifetime of a signed URL, in seconds
AWS_QUERYSTRING_EXPIRE == 3600
\* Lifetimes asked of the signing helpers: below, at and above the configured one
Expirations == {AWS_QUERYSTRING_EXPIRE \div 2, AWS_QUERYSTRING_EXPIRE, 2 * AWS_QUERYSTRING_EXPIRE}

\* utils.generate_presigned_url / utils.generate_upload_presigned_url: the URL
\* signed by the S3 client with ExpiresIn = expiration, None on a ClientError.
generate_presigned_url(client_method, bucket, object_key, expiration, region, client_error) ==
    IF client_error THEN None
    ELSE Some([ method     |-> client_method,
                bucket     |-> bucket,
                key        |-> object_key,
                region     |-> region,
                expires_in |-> expiration ])

\* Document.get_download_url(expiration)
get_download_url(self, expiration, client_error) ==
    IF self.s3_bucket # "" /\ self.s3_key # << >>
        THEN generate_presigned_url("get_object", self.s3_bucket, self.s3_key, expiration,
                                    self.s3_region, client_error)
        ELSE None

\* utils.organize_document_path: clients/{client_id}/{document_type}/{timestamp}_{safe_filename}
\* (stamp: the timestamp; the backends have file_overwrite = False, so that the
\* names of two uploads differ)
organize_document_path(client_id, document_type, stamp, filename) ==
    <<"clients", ToString(client_id), document_type, stamp, filename>>

\* The key under which the storage backend of a region stores a file name:
\* the name joined to the backend's location.
storage_key(region, name) == location(region) \o name

\* Mutant of archive_key: the copy is written under the source key.
archive_key_in_place(client_id, s3_key) == s3_key

\* archive_old_documents: archive_key = f"archive/{client.id}/{document.s3_key}"
archive_key(client_id, s3_key) == <<"archive", ToString(client_id)>> \o s3_key

\* put_object / copy_object of the S3 client on one bucket
put_object(bucket, key, body) ==
    [k \in DOMAIN bucket \cup {key} |-> IF k = key THEN body ELSE bucket[k]]

\* Mutant of copy_object: an existing object is not overwritten, the copy is
\* written under another name next to it (as file_overwrite = False does for
\* uploads).
copy_object_no_overwrite(bucket, source_key, key) ==
    put_object(bucket, IF key \in DOMAIN bucket THEN key \o <<"copy">> ELSE key, bucket[source_key])

copy_object(bucket, source_key, key) == put_object(bucket, key, bucket[source_key])

\* The storage columns of a Document row after Document.objects.create(file=...):
\* Document.save assigns s3_key = self.file.name before super().save() stores the
\* file, that is the name of the upload; the stored name (column file) is the
\* path generated by upload_to.
NewFile(d, client_id, document_type, filename) ==
    [ client        |-> client_id,
      document_type |-> document_type,
      name          |-> organize_document_path(client_id, document_type, ToString(d), filename),
      s3_key        |-> <<filename>>,
      s3_bucket     |-> bucket_name(Client_get_storage_backend(clients[client_id].region)),
      s3_region     |-> region_name(Client_get_storage_backend(clients[client_id].region)) ]

\* Document.objects.create(...) without a file (as the tests of the repository
\* create documents): `if self.file` is false, no column of the location is
\* assigned and nothing is stored.
NewFileless(client_id, document_type) ==
    [ client        |-> client_id,
      document_type |-> document_type,
      name          |-> << >>,
      s3_key        |-> << >>,
      s3_bucket     |-> "",
      s3_region     |-> "" ]

\* Document.save of a row read from the table: with a file, s3_key is assigned
\* self.file.name, now the stored name, and s3_bucket and s3_region those of the
\* backend of the region the case has at the time of the save.
resave(row) ==
    IF row.name = << >> THEN row
    ELSE [row EXCEPT
            !.s3_key = row.name,
            !.s3_bucket = bucket_name(Client_get_storage_backend(clients[row.client].region)),
            !.s3_region = region_name(Client_get_storage_backend(clients[row.client].region))]

\* The columns of the recorded location of a row.
Location(row) == <<row.s3_bucket, row.s3_key, row.s3_region>>

\* The storage columns a process job holds in memory for a row of the table of
\* storage columns (None where the model keeps no such row).
loaded_location(row) == IF row = NoDoc THEN None ELSE Some(Location(row))

\* Document.save on the in-memory object, whatever update_fields is: where
\* self.file is set, s3_key, s3_bucket and s3_region of the object are assigned
\* from self.file.name and from the storage backend of the region of the case.
saved_location(row) == IF row = NoDoc THEN None ELSE Some(Location(resave(row)))

\* document.save() of the in-memory object of a job: the storage columns of
\* the row take the values the object holds.
save_location(row, columns) ==
    IF row = NoDoc \/ columns = None THEN row
    ELSE [row EXCEPT !.s3_bucket = columns[1][1],
                     !.s3_key = columns[1][2],
                     !.s3_region = columns[1][3]]

NewClient == [status |-> "inquiry", region |-> "AU", updated_at |-> 0]

IdleArchive ==
    [ pc             |-> "idle",
      old_clients    |-> << >>,   \* the rows of the old_clients query still to visit
      documents      |-> << >>,   \* the rows of client.documents.all() still to visit
      archived_count |-> 0,
      result         |-> None,    \* archived_count returned by the last run
      visited        |-> {} ]     \* history: documents the loop of this run has visited

NoStorage ==
    /\ today = 0
    /\ clients = [c \in ClientIds |-> NewClient]
    /\ files = [d \in FileIds |-> NoDoc]
    /\ s3 = << >>
    /\ archive = IdleArchive
    /\ returned = None

-----------------------------------------------------------------------------
(* State after construction: no document, no job, the sweep not running *)

IdleJob ==
    [ pc             |-> "idle",
      doc_id         |-> 0,
      retries        |-> 0,      \* self.request.retries
      fetches        |-> 0,      \* get_object calls made for this message
      document       |-> NoDoc,  \* the in-memory Document of the running attempt
      location       |-> None,   \* its s3_bucket, s3_key and s3_region
      extracted_data |-> None,
      ocr_text       |-> None,
      result         |-> "none",
      overlaps       |-> {} ]    \* history: deliveries for the same id in flight together with this one

IdleSweep == [pc |-> "idle", pending |-> << >>]

Init ==
    /\ now = 0
    /\ db = [d \in DocIds |-> NoDoc]
    /\ store = [d \in DocIds |-> None]
    /\ jobs = [j \in 1..MaxJobs |-> IdleJob]
    /\ delivered = 0
    /\ notifications = [d \in DocIds |-> 0]
    /\ sweep = IdleSweep
    /\ last_writer = [d \in DocIds |-> 0]
    /\ verified_snapshot = [d \in DocIds |-> None]
    /\ NoStorage

\* A delivery is in flight from its first start to its return, retries included.
InFlight(k) ==
    \/ jobs[k].pc \in {"loaded", "marked", "extracted", "saved"}
    \/ jobs[k].pc = "queued" /\ jobs[k].retries > 0

\* A slot is free when it holds no message or the task of its message has returned.
Free(j) == jobs[j].pc \in {"idle", "done"}
HasFreeJob == delivered < MaxDeliveries /\ \E j \in JobIds : Free(j)
FreeJob == CHOOSE j \in JobIds : Free(j) /\ \A k \in JobIds : Free(k) => j <= k

\* process_document.delay(document_id)
delay(document_id) ==
    [j \in JobIds |->
        IF j = FreeJob
            THEN [IdleJob EXCEPT !.pc = "queued", !.doc_id = document_id]
            ELSE [jobs[j] EXCEPT !.overlaps = @ \ {FreeJob}]]

-----------------------------------------------------------------------------
(* API operations *)

\* Document.save of a row read from the table, on the storage columns of
\* document d (where the model keeps them: Upload leaves them out, UploadStored
\* and CreateDocument write them).
Resaved(d) ==
    /\ files' = [files EXCEPT ![d] = IF @ = NoDoc THEN @ ELSE resave(@)]
    /\ UNCHANGED <<today, clients, s3, archive, returned>>

\* DocumentUploadSerializer.create: Document.objects.create(...) stores the file
\* and the row, then process_document.delay(id).
Upload(d, document_type, file_type, file_content) ==
    /\ db[d] = NoDoc
    /\ store[d] = None                                      \* a new id: never given before
    /\ \A e \in DocIds : e < d => store[e] # None
    /\ file_type # "application/pdf" => file_content = ""   \* only a PDF's text is read
    /\ HasFreeJob
    /\ db' = [db EXCEPT ![d] = NewDocument(document_type, file_type, now)]
    /\ store' = [store EXCEPT ![d] = Some(file_content)]
    /\ jobs' = delay(d)
    /\ delivered' = delivered + 1
    /\ UNCHANGED <<now, notifications, sweep, last_writer, verified_snapshot>>
    /\ UNCHANGED storage_vars

\* DocumentUploadSerializer.create with the storage columns of the row and the
\* bucket: Document.save records the location, the backend of the region of the
\* case stores the file, then process_document.delay(id).
UploadStored(d, c, document_type, file_type, file_content, filename) ==
    LET row == NewFile(d, c, document_type, filename) IN
    /\ db[d] = NoDoc
    /\ store[d] = None
    /\ files[d] = NoDoc
    /\ \A e \in DocIds : e < d => store[e] # None
    /\ file_type # "application/pdf" => file_content = ""
    /\ HasFreeJob
    /\ db' = [db EXCEPT ![d] = NewDocument(document_type, file_type, now)]
    /\ store' = [store EXCEPT ![d] = Some(file_content)]
    /\ jobs' = delay(d)
    /\ delivered' = delivered + 1
    /\ files' = [files EXCEPT ![d] = row]
    /\ s3' = put_object(s3, storage_key(clients[c].region, row.name), file_content)
    /\ UNCHANGED <<now, notifications, sweep, last_writer, verified_snapshot>>
    /\ UNCHANGED <<today, clients, archive, returned>>

\* Document.objects.create(client=..., document_type=..., title=...) without a
\* file, as the tests of the repository create documents: the row has the
\* default status, the columns of the location are blank, nothing is stored and
\* no job is enqueued.
CreateDocument(d, c, document_type) ==
    /\ db[d] = NoDoc
    /\ store[d] = None
    /\ files[d] = NoDoc
    /\ \A e \in DocIds : e < d => db[e] # NoDoc
    /\ db' = [db EXCEPT ![d] = NewDocument(document_type, "", now)]
    /\ files' = [files EXCEPT ![d] = NewFileless(c, document_type)]
    /\ UNCHANGED <<now, store, jobs, delivered, notifications, sweep, last_writer, verified_snapshot>>
    /\ UNCHANGED <<today, clients, s3, archive, returned>>

\* DocumentViewSet.reprocess: get_object(), then process_document.delay(id),
\* whatever the status of the document.
Reprocess(d) ==
    /\ db[d] # NoDoc
    /\ HasFreeJob
    /\ jobs' = delay(d)
    /\ delivered' = delivered + 1
    /\ UNCHANGED <<now, db, store, notifications, sweep, last_writer, verified_snapshot>>
    /\ UNCHANGED storage_vars

\* DocumentViewSet.verify -> DocumentVerifySerializer.update -> Document.verify.
\* The request loads the row and saves the verification columns; the two are one
\* step here (of the loaded row only verification_notes is written back).
Verify(d, user, notes) ==
    /\ db[d] # NoDoc
    /\ db' = [db EXCEPT ![d] = save_fields(@, verify(from_db(@), user, notes, now), VerifyFields, now)]
    /\ last_writer' = [last_writer EXCEPT ![d] = 0]
    /\ verified_snapshot' = [verified_snapshot EXCEPT ![d] =
            IF @ = None THEN Some(<<db[d].ai_extracted_data, db[d].ocr_text>>) ELSE @]
    /\ UNCHANGED <<now, store, jobs, delivered, notifications, sweep>>
    /\ UNCHANGED storage_vars

\* The manual override to rejected: DocumentViewSet is a ModelViewSet and status
\* is a writable field of DocumentSerializer, so an update request sets it.
Reject(d) ==
    /\ db[d] # NoDoc
    /\ db[d].status # "rejected"
    /\ db' = [db EXCEPT ![d] = save([from_db(@) EXCEPT !.status = "rejected"], now)]
    /\ last_writer' = [last_writer EXCEPT ![d] = 0]
    /\ UNCHANGED <<now, store, jobs, delivered, notifications, sweep, verified_snapshot>>
    /\ Resaved(d)

\* DocumentViewSet.destroy: delete_s3_file(...) (s3_deleted: it removed the
\* object; it reports a ClientError by returning False, and is skipped when the
\* row names no bucket or key), then instance.delete().
Destroy(d, s3_deleted) ==
    /\ db[d] # NoDoc
    /\ db' = [db EXCEPT ![d] = NoDoc]
    /\ store' = [store EXCEPT ![d] = IF s3_deleted THEN Deleted ELSE @]
    /\ last_writer' = [last_writer EXCEPT ![d] = 0]
    /\ UNCHANGED <<now, jobs, delivered, notifications, sweep, verified_snapshot>>
    /\ UNCHANGED storage_vars

Tick ==
    /\ now < MaxTime
    /\ now' = now + 1
    /\ UNCHANGED <<db, store, jobs, delivered, notifications, sweep, last_writer, verified_snapshot>>
    /\ UNCHANGED storage_vars

-----------------------------------------------------------------------------
(* tasks.py: process_document, one action per step between two accesses to   *)
(* shared state                                                              *)

\* document = Document.objects.get(id=document_id)
J_Load(j) ==
    LET d == jobs[j].doc_id IN
    /\ jobs[j].pc = "queued"
    /\ db[d] # NoDoc
    /\ jobs' = [k \in JobIds |->
            IF k = j
                THEN [jobs[j] EXCEPT
                        !.pc = "loaded",
                        !.document = from_db(db[d]),
                        !.location = loaded_location(files[d]),
                        !.overlaps = @ \cup {i \in JobIds \ {j} : jobs[i].doc_id = d /\ InFlight(i)}]
            ELSE IF jobs[k].doc_id = d /\ InFlight(k)
                THEN [jobs[k] EXCEPT !.overlaps = @ \cup {j}]
            ELSE jobs[k]]
    /\ UNCHANGED <<now, db, store, delivered, notifications, sweep, last_writer, verified_snapshot>>
    /\ UNCHANGED storage_vars

\* Mutant of not_found: the stale identifier is retried.
not_found_retried(job) ==
    [job EXCEPT !.pc = "queued", !.retries = @ + 1]

\* except Document.DoesNotExist: return {'status': 'error', 'message': 'Document not found'}
not_found(job) ==
    [job EXCEPT !.pc = "done", !.result = "not_found"]

\* Document.objects.get(id=document_id) raises Document.DoesNotExist
J_NotFound(j) ==
    /\ jobs[j].pc = "queued"
    /\ db[jobs[j].doc_id] = NoDoc
    /\ jobs' = [jobs EXCEPT ![j] = not_found(@)]
    /\ UNCHANGED <<now, db, store, delivered, notifications, sweep, last_writer, verified_snapshot>>
    /\ UNCHANGED storage_vars

\* document.mark_as_processing().  save(update_fields=...) of a row that is
\* gone raises DatabaseError (J_Fail).
J_MarkProcessing(j) ==
    LET d == jobs[j].doc_id
        self == mark_as_processing(jobs[j].document)
    IN
    /\ jobs[j].pc = "loaded"
    /\ db[d] # NoDoc
    /\ db' = [db EXCEPT ![d] = save_fields(@, self, MarkProcessingFields, now)]
    /\ jobs' = [jobs EXCEPT ![j].pc = "marked", ![j].document = self,
                             ![j].location = saved_location(files[d])]
    /\ last_writer' = [last_writer EXCEPT ![d] = j]
    /\ UNCHANGED <<now, store, delivered, notifications, sweep, verified_snapshot>>
    /\ UNCHANGED storage_vars

\* s3_client.get_object(...) returns the object; the extractor selected by
\* document_type runs on it (raises: extract_text_from_pdf hits an exception,
\* which it swallows).
J_Fetch(j, raises) ==
    LET d == jobs[j].doc_id
        self == jobs[j].document
        out == run_extractor(self.document_type, store[d][1], self.file_type, raises, now)
    IN
    /\ jobs[j].pc = "marked"
    /\ Len(store[d]) = 1
    /\ jobs' = [jobs EXCEPT
            ![j].pc = "extracted",
            ![j].fetches = @ + 1,
            ![j].extracted_data = out[1],
            ![j].ocr_text = out[2]]
    /\ UNCHANGED <<now, db, store, delivered, notifications, sweep, last_writer, verified_snapshot>>
    /\ UNCHANGED storage_vars

\* Mutant of retry: the bound is compared one late (retries in place of retries + 1).
retry_one_more(job) ==
    IF job.retries > max_retries
        THEN [job EXCEPT !.pc = "done", !.result = "failed", !.document = NoDoc, !.location = None]
        ELSE [job EXCEPT !.pc = "queued", !.retries = @ + 1, !.document = NoDoc, !.location = None]

\* self.retry(exc=e, countdown=60): a new delivery with retries + 1, or the
\* exception itself once retries + 1 exceeds max_retries.
retry(job) ==
    IF job.retries + 1 > max_retries
        THEN [job EXCEPT !.pc = "done", !.result = "failed", !.document = NoDoc, !.location = None]
        ELSE [job EXCEPT !.pc = "queued", !.retries = @ + 1, !.document = NoDoc, !.location = None]

\* get_object raises a ClientError with the given error code:
\* except ClientError -> raise self.retry(...), whatever the code.
J_FetchClientError(j, code) ==
    /\ jobs[j].pc = "marked"
    /\ code \in ClientErrorCodes
    /\ jobs' = [jobs EXCEPT ![j] = retry([@ EXCEPT !.fetches = @ + 1])]
    /\ UNCHANGED <<now, db, store, delivered, notifications, sweep, last_writer, verified_snapshot>>
    /\ UNCHANGED storage_vars

\* document.mark_as_processed(extracted_data=..., ocr_text=...).
\* save(update_fields=...) of a row that is gone raises DatabaseError (J_Fail).
J_MarkProcessed(j) ==
    LET d == jobs[j].doc_id
        self == mark_as_processed(jobs[j].document, jobs[j].extracted_data, jobs[j].ocr_text, now)
    IN
    /\ jobs[j].pc = "extracted"
    /\ db[d] # NoDoc
    /\ db' = [db EXCEPT ![d] = save_fields(@, self, MarkProcessedFields, now)]
    /\ jobs' = [jobs EXCEPT ![j].pc = "saved", ![j].document = self,
                             ![j].extracted_data = None, ![j].ocr_text = None]
    /\ last_writer' = [last_writer EXCEPT ![d] = j]
    /\ UNCHANGED <<now, store, delivered, notifications, sweep, verified_snapshot>>
    /\ UNCHANGED storage_vars

\* Mutant of J_Notify: the notification is enqueued and the task returns before
\* the success transition is saved.
J_NotifyEarly(j) ==
    /\ jobs[j].pc = "extracted"
    /\ notifications' = [notifications EXCEPT ![jobs[j].doc_id] = @ + 1]
    /\ jobs' = [jobs EXCEPT ![j].pc = "done", ![j].result = "success", ![j].document = NoDoc,
                             ![j].location = None,
                             ![j].extracted_data = None, ![j].ocr_text = None]
    /\ UNCHANGED <<now, db, store, delivered, sweep, last_writer, verified_snapshot>>
    /\ UNCHANGED storage_vars

\* notify_case_officer.delay(document_id); return {'status': 'success', ...}
J_Notify(j) ==
    LET d == jobs[j].doc_id IN
    /\ jobs[j].pc = "saved"
    /\ notifications' = [notifications EXCEPT ![d] = @ + 1]
    /\ jobs' = [jobs EXCEPT ![j].pc = "done", ![j].result = "success", ![j].document = NoDoc,
                             ![j].location = None]
    /\ UNCHANGED <<now, db, store, delivered, sweep, last_writer, verified_snapshot>>
    /\ UNCHANGED storage_vars

\* The in-memory Document when the statement the job is at raises: a transition
\* method has assigned its fields before its save() raises.  When
\* Document.objects.get raises, the name document is not bound.
document_at_raise(job, t) ==
    CASE job.pc = "loaded" -> mark_as_processing(job.document)
      [] job.pc = "extracted" -> mark_as_processed(job.document, job.extracted_data, job.ocr_text, t)
      [] OTHER -> job.document

\* except Exception: document.status = 'uploaded'; document.save() inside
\* try/except: pass; return {'status': 'error', ...}.  document.save() writes
\* every column of the in-memory object.
handle_exception(job, t) ==
    [job EXCEPT !.pc = "done", !.result = "error",
                !.extracted_data = None, !.ocr_text = None,
                !.document = IF job.pc = "queued" THEN NoDoc
                             ELSE reset_to_uploaded(document_at_raise(job, t))]

\* Any statement of the try block other than a ClientError of get_object raises:
\* Document.objects.get with a database error (pc queued), the save of
\* mark_as_processing (loaded), get_object with a non-ClientError or the
\* extractor (marked), the save of mark_as_processed (extracted), the enqueueing
\* of the notification (saved).  reset_ok: the handler's save succeeds; with
\* document unbound the handler's own try block raises before any save.
\* document.save() of a row that is gone inserts the row again (an UPDATE of no
\* row is followed by an INSERT), unless the object is gone too: Document.save
\* reads self.file.size, which raises for a missing object.  The save writes
\* the storage columns of the in-memory object: those Document.save derived in
\* mark_as_processing, from the case as the job read it then (the related
\* object is cached on the instance), or derives now when mark_as_processing
\* is the statement that raised.
J_Fail(j, reset_ok) ==
    LET d == jobs[j].doc_id
        after == handle_exception(jobs[j], now)
    IN
    /\ jobs[j].pc \in {"queued", "loaded", "marked", "extracted", "saved"}
    /\ jobs[j].pc = "queued" => ~reset_ok
    /\ store[d] = Deleted => ~reset_ok
    /\ jobs' = [jobs EXCEPT ![j] =
            [after EXCEPT !.fetches = IF jobs[j].pc = "marked" THEN @ + 1 ELSE @,
                          !.document = NoDoc,
                          !.location = None]]
    /\ IF reset_ok
        THEN /\ db' = [db EXCEPT ![d] = save(after.document, now)]
             /\ last_writer' = [last_writer EXCEPT ![d] = j]
             /\ files' = [files EXCEPT ![d] =
                    save_location(@, IF jobs[j].pc = "loaded" THEN saved_location(@)
                                     ELSE jobs[j].location)]
             /\ UNCHANGED <<today, clients, s3, archive, returned>>
        ELSE UNCHANGED <<db, last_writer>> /\ UNCHANGED storage_vars
    /\ UNCHANGED <<now, store, delivered, notifications, sweep, verified_snapshot>>

-----------------------------------------------------------------------------
(* tasks.py: cleanup_temp_files *)

\* Meta.ordering = ['-uploaded_at']: ids are given in upload order
RECURSIVE OrderDesc(_)
OrderDesc(S) ==
    IF S = {} THEN << >>
    ELSE LET m == CHOOSE x \in S : \A y \in S : y <= x
         IN  <<m>> \o OrderDesc(S \ {m})

\* Mutant of stuck_documents: the comparison with the cutoff is reversed
\* (updated_at__gt), so that rows recently written are selected.
stuck_documents_recent(t) ==
    {d \in DocIds : /\ db[d] # NoDoc
                    /\ db[d].status = "processing"
                    /\ db[d].updated_at[1] > t - STALL_HOURS}

\* Document.objects.filter(status='processing', updated_at__lt=cutoff_time)
stuck_documents(t) ==
    {d \in DocIds : /\ db[d] # NoDoc
                    /\ db[d].status = "processing"
                    /\ db[d].updated_at[1] < t - STALL_HOURS}

\* The for loop evaluates the query: the matching rows are loaded at once.
SweepQuery ==
    LET ids == OrderDesc(stuck_documents(now)) IN
    /\ sweep.pc = "idle"
    /\ sweep' = IF ids = << >> THEN IdleSweep
                ELSE [pc |-> "iterating",
                      pending |-> [i \in 1..Len(ids) |-> <<ids[i], from_db(db[ids[i]])>>]]
    /\ UNCHANGED <<now, db, store, jobs, delivered, notifications, last_writer, verified_snapshot>>
    /\ UNCHANGED storage_vars

\* document.status = 'uploaded'; document.save(), for the next loaded row
SweepSave ==
    /\ sweep.pc = "iterating"
    /\ LET d == Head(sweep.pending)[1]
           self == Head(sweep.pending)[2]
       IN  /\ db' = [db EXCEPT ![d] = save(reset_to_uploaded(self), now)]
           /\ last_writer' = [last_writer EXCEPT ![d] = 0]
    /\ sweep' = IF Len(sweep.pending) = 1 THEN IdleSweep
                ELSE [sweep EXCEPT !.pending = Tail(@)]
    /\ UNCHANGED <<now, store, jobs, delivered, notifications, verified_snapshot>>
    /\ Resaved(Head(sweep.pending)[1])

-----------------------------------------------------------------------------
(* Storage of documents, cases, and tasks.py: archive_old_documents *)

\* Document.objects.create(client=..., file=...): Document.save records the
\* location and the storage backend of the client's region stores the file.
StoreDocument(d, c, document_type, filename, content) ==
    LET row == NewFile(d, c, document_type, filename) IN
    /\ files[d] = NoDoc
    /\ \A e \in FileIds : e < d => files[e] # NoDoc
    /\ files' = [files EXCEPT ![d] = row]
    /\ s3' = put_object(s3, storage_key(clients[c].region, row.name), content)
    /\ UNCHANGED <<today, clients, archive>>
    /\ UNCHANGED <<now, db, store, jobs, delivered, notifications, sweep, last_writer, verified_snapshot, returned>>

\* Document.objects.create(client=..., document_type=..., title=...) without a
\* file: the row is created with status uploaded (the default) and the columns
\* of the location blank; nothing is stored.
CreateFileless(d, c, document_type) ==
    /\ files[d] = NoDoc
    /\ \A e \in FileIds : e < d => files[e] # NoDoc
    /\ files' = [files EXCEPT ![d] = NewFileless(c, document_type)]
    /\ UNCHANGED <<today, clients, s3, archive>>
    /\ UNCHANGED <<now, db, store, jobs, delivered, notifications, sweep, last_writer, verified_snapshot, returned>>

\* A later document.save() of the row (the failure handler, the stuck-task
\* sweep, an update through the API): Document.save assigns s3_key = self.file.name,
\* now the stored name.
ResaveDocument(d) ==
    /\ files[d] # NoDoc
    /\ files' = [files EXCEPT ![d] = resave(@)]
    /\ UNCHANGED <<today, clients, s3, archive>>
    /\ UNCHANGED <<now, db, store, jobs, delivered, notifications, sweep, last_writer, verified_snapshot, returned>>

\* An upload made with the presigned POST of utils.generate_upload_presigned_url
\* for the location a row records: the object is written under the recorded key,
\* without passing through a storage backend.
DirectUpload(d, content) ==
    /\ files[d] # NoDoc
    /\ s3' = put_object(s3, files[d].s3_key, content)
    /\ UNCHANGED <<today, clients, files, archive>>
    /\ UNCHANGED <<now, db, store, jobs, delivered, notifications, sweep, last_writer, verified_snapshot, returned>>

\* An update of a case through ClientViewSet: status is written, updated_at is
\* auto_now.
UpdateClient(c, status) ==
    /\ clients' = [clients EXCEPT ![c].status = status, ![c].updated_at = today]
    /\ UNCHANGED <<today, files, s3, archive>>
    /\ UNCHANGED <<now, db, store, jobs, delivered, notifications, sweep, last_writer, verified_snapshot, returned>>

\* An update of a case through ClientViewSet that changes its residency region.
MoveClient(c, region) ==
    /\ clients[c].region # region
    /\ clients' = [clients EXCEPT ![c].region = region, ![c].updated_at = today]
    /\ UNCHANGED <<today, files, s3, archive>>
    /\ UNCHANGED <<now, db, store, jobs, delivered, notifications, sweep, last_writer, verified_snapshot, returned>>

DayTick(n) ==
    /\ today + n <= MaxDay
    /\ today' = today + n
    /\ UNCHANGED <<clients, files, s3, archive>>
    /\ UNCHANGED <<now, db, store, jobs, delivered, notifications, sweep, last_writer, verified_snapshot, returned>>

\* Client.objects.filter(status='completed', updated_at__lt=cutoff_date)
old_clients(t) ==
    {c \in ClientIds : clients[c].status = "completed" /\ clients[c].updated_at < t - RETENTION_DAYS}

\* client.documents.all()
documents_of(c) ==
    {d \in FileIds : files[d] # NoDoc /\ files[d].client = c}

\* cutoff_date, and the outer for loop evaluates the old_clients query
ArchiveStart ==
    LET ids == OrderDesc(old_clients(today)) IN
    /\ archive.pc = "idle"
    /\ archive' = [IdleArchive EXCEPT !.pc = "clients", !.old_clients = ids]
    /\ UNCHANGED <<today, clients, files, s3>>
    /\ UNCHANGED <<now, db, store, jobs, delivered, notifications, sweep, last_writer, verified_snapshot, returned>>

\* for client in old_clients: the inner for loop evaluates client.documents.all()
ArchiveClient ==
    LET c == Head(archive.old_clients)
        ids == OrderDesc(documents_of(c))
    IN
    /\ archive.pc = "clients"
    /\ archive.documents = << >>
    /\ archive.old_clients # << >>
    /\ archive' = [archive EXCEPT
            !.old_clients = Tail(@),
            !.documents = [i \in 1..Len(ids) |-> <<ids[i], files[ids[i]]>>]]
    /\ UNCHANGED <<today, clients, files, s3>>
    /\ UNCHANGED <<now, db, store, jobs, delivered, notifications, sweep, last_writer, verified_snapshot, returned>>

\* The body of the inner loop for the next document: copy_to_archive(...) when
\* the row names a key.  outcome: copy_object copied the object ("copied", the
\* source key must exist), raised a ClientError, which copy_to_archive turns
\* into False ("client_error"), or copy_to_archive raised another exception,
\* which ends the task ("raised").
ArchiveCopy(outcome) ==
    LET d == Head(archive.documents)[1]
        document == Head(archive.documents)[2]
        key == archive_key(document.client, document.s3_key)
        seen == [archive EXCEPT !.documents = Tail(@), !.visited = @ \cup {d}]
    IN
    /\ archive.pc = "clients"
    /\ archive.documents # << >>
    /\ IF document.s3_bucket = "" \/ document.s3_key = << >>
         THEN /\ outcome = "skipped"
              /\ archive' = seen
              /\ s3' = s3
         ELSE CASE outcome = "copied" ->
                    /\ document.s3_key \in DOMAIN s3
                    /\ s3' = copy_object(s3, document.s3_key, key)
                    /\ archive' = [seen EXCEPT !.archived_count = @ + 1]
                [] outcome = "client_error" ->
                    /\ s3' = s3
                    /\ archive' = seen
                [] outcome = "raised" ->
                    /\ s3' = s3
                    /\ archive' = [seen EXCEPT !.pc = "idle", !.old_clients = << >>,
                                                !.documents = << >>, !.archived_count = 0]
                [] OTHER -> FALSE
    /\ UNCHANGED <<today, clients, files>>
    /\ UNCHANGED <<now, db, store, jobs, delivered, notifications, sweep, last_writer, verified_snapshot, returned>>

\* return {'status': 'completed', 'archived_count': archived_count}
ArchiveReturn ==
    /\ archive.pc = "clients"
    /\ archive.documents = << >>
    /\ archive.old_clients = << >>
    /\ archive' = [archive EXCEPT !.pc = "idle", !.archived_count = 0,
                                  !.result = Some(archive.archived_count)]
    /\ UNCHANGED <<today, clients, files, s3>>
    /\ UNCHANGED <<now, db, store, jobs, delivered, notifications, sweep, last_writer, verified_snapshot, returned>>

CopyOutcomes == {"skipped", "copied", "client_error", "raised"}

-----------------------------------------------------------------------------
(* A whole run of a sweep with no other operation between its steps: the     *)
(* loops of cleanup_temp_files and archive_old_documents computed at once.   *)
(* S3 answers as the bucket stands: copy_object succeeds when the source key *)
(* exists and raises the ClientError NoSuchKey when it does not.             *)

\* for document in stuck_documents: document.status = 'uploaded'; document.save()
RECURSIVE reset_stuck(_, _, _)
reset_stuck(table, ids, t) ==
    IF ids = << >> THEN table
    ELSE reset_stuck([table EXCEPT ![Head(ids)] = save(reset_to_uploaded(from_db(@)), t)],
                     Tail(ids), t)

\* cleanup_temp_files, run from the present state: the table of documents and
\* their storage columns when it returns, and the reset_count it reports
\* (stuck_documents.count() after the loop: the length of the rows the loop
\* loaded).
cleanup_temp_files ==
    LET stuck == stuck_documents(now) IN
    [ db    |-> reset_stuck(db, OrderDesc(stuck), now),
      files |-> [d \in FileIds |->
                    IF d \in stuck /\ files[d] # NoDoc THEN resave(files[d]) ELSE files[d]],
      stuck |-> stuck,
      reset_count |-> Len(OrderDesc(stuck)) ]

\* for document in client.documents.all(): the copies of the rows, in order
RECURSIVE archive_documents(_, _, _)
archive_documents(bucket, rows, archived_count) ==
    IF rows = << >> THEN [s3 |-> bucket, archived_count |-> archived_count]
    ELSE LET document == Head(rows)
             key == archive_key(document.client, document.s3_key)
             copied == /\ document.s3_bucket # ""
                       /\ document.s3_key # << >>
                       /\ document.s3_key \in DOMAIN bucket
         IN  archive_documents(
                IF copied THEN copy_object(bucket, document.s3_key, key) ELSE bucket,
                Tail(rows),
                IF copied THEN archived_count + 1 ELSE archived_count)

\* for client in old_clients
RECURSIVE archive_clients(_, _, _)
archive_clients(bucket, ids, archived_count) ==
    IF ids = << >> THEN [s3 |-> bucket, archived_count |-> archived_count]
    ELSE LET docs == OrderDesc(documents_of(Head(ids)))
             after == archive_documents(bucket, [i \in 1..Len(docs) |-> files[docs[i]]],
                                        archived_count)
         IN  archive_clients(after.s3, Tail(ids), after.archived_count)

\* archive_old_documents, run from the present state: the bucket and the count
\* when it returns.
archive_old_documents == archive_clients(s3, OrderDesc(old_clients(today)), 0)

\* One run of cleanup_temp_files, start to return.
CleanupRun ==
    /\ sweep.pc = "idle"
    /\ db' = cleanup_temp_files.db
    /\ files' = cleanup_temp_files.files
    /\ last_writer' = [d \in DocIds |->
                        IF d \in cleanup_temp_files.stuck THEN 0 ELSE last_writer[d]]
    /\ returned' = Some([ call  |-> "cleanup_temp_files",
                          arg   |-> None,
                          value |-> Some([status |-> "completed",
                                          reset_count |-> cleanup_temp_files.reset_count]) ])
    /\ UNCHANGED <<now, store, jobs, delivered, notifications, sweep, verified_snapshot>>
    /\ UNCHANGED <<today, clients, s3, archive>>

\* One run of archive_old_documents, start to return.
ArchiveRun ==
    /\ archive.pc = "idle"
    /\ s3' = archive_old_documents.s3
    /\ archive' = [IdleArchive EXCEPT
            !.result = Some(archive_old_documents.archived_count),
            !.visited = UNION {documents_of(c) : c \in old_clients(today)}]
    /\ UNCHANGED <<today, clients, files>>
    /\ UNCHANGED <<now, db, store, jobs, delivered, notifications, sweep, last_writer, verified_snapshot, returned>>

-----------------------------------------------------------------------------
(* Routing and signing helpers; returned holds the call and its value *)

\* client.get_storage_backend()
GetStorageBackend(c) ==
    /\ returned' = Some([ call  |-> "Client.get_storage_backend",
                          arg   |-> clients[c].region,
                          value |-> Backend(Client_get_storage_backend(clients[c].region)) ])
    /\ UNCHANGED <<today, clients, files, s3, archive>>
    /\ UNCHANGED <<now, db, store, jobs, delivered, notifications, sweep, last_writer, verified_snapshot>>

\* storage_backends.get_storage_backend(region)
FactoryBackend(tag) ==
    /\ returned' = Some([ call  |-> "get_storage_backend",
                          arg   |-> tag,
                          value |-> Backend(get_storage_backend(tag)) ])
    /\ UNCHANGED <<today, clients, files, s3, archive>>
    /\ UNCHANGED <<now, db, store, jobs, delivered, notifications, sweep, last_writer, verified_snapshot>>

\* document.get_download_url(expiration=...)
GetDownloadUrl(d, expiration, client_error) ==
    /\ files[d] # NoDoc
    /\ returned' = Some([ call  |-> "get_download_url",
                          arg   |-> expiration,
                          value |-> get_download_url(files[d], expiration, client_error) ])
    /\ UNCHANGED <<today, clients, files, s3, archive>>
    /\ UNCHANGED <<now, db, store, jobs, delivered, notifications, sweep, last_writer, verified_snapshot>>

\* generate_upload_presigned_url(bucket, key, expiration=..., region) for the
\* location a row records
GenerateUploadUrl(d, expiration, client_error) ==
    /\ files[d] # NoDoc
    /\ files[d].s3_key # << >>
    /\ returned' = Some([ call  |-> "generate_upload_presigned_url",
                          arg   |-> expiration,
                          value |-> generate_presigned_url("post_object", files[d].s3_bucket,
                                        files[d].s3_key, expiration, files[d].s3_region, client_error) ])
    /\ UNCHANGED <<today, clients, files, s3, archive>>
    /\ UNCHANGED <<now, db, store, jobs, delivered, notifications, sweep, last_writer, verified_snapshot>>

\* DocumentViewSet.download and DocumentSerializer.get_download_url:
\* document.get_download_url(expiration=3600)
Download(d, client_error) ==
    /\ files[d] # NoDoc
    /\ returned' = Some([ call  |-> "download",
                          arg   |-> AWS_QUERYSTRING_EXPIRE,
                          value |-> get_download_url(files[d], AWS_QUERYSTRING_EXPIRE, client_error) ])
    /\ UNCHANGED <<today, clients, files, s3, archive>>
    /\ UNCHANGED <<now, db, store, jobs, delivered, notifications, sweep, last_writer, verified_snapshot>>

-----------------------------------------------------------------------------

Next ==
    \/ \E d \in DocIds, dt \in DocTypes, ft \in FileTypes, c \in Contents : Upload(d, dt, ft, c)
    \/ \E d \in DocIds : Reprocess(d)
    \/ \E d \in DocIds, u \in Users, n \in Notes : Verify(d, u, n)
    \/ \E d \in DocIds : Reject(d)
    \/ \E j \in JobIds : J_Load(j)
    \/ \E j \in JobIds : J_MarkProcessing(j)
    \/ \E j \in JobIds, raises \in BOOLEAN : J_Fetch(j, raises)
    \/ \E j \in JobIds, code \in ClientErrorCodes : J_FetchClientError(j, code)
    \/ \E j \in JobIds : J_MarkProcessed(j)
    \/ \E j \in JobIds : J_Notify(j)
    \/ \E j \in JobIds, reset_ok \in BOOLEAN : J_Fail(j, reset_ok)
    \/ SweepQuery
    \/ SweepSave
    \/ Tick

Spec == Init /\ [][Next]_vars

\* The scheduler keeps running cleanup_temp_files (celery beat, hourly) and
\* time passes.  No step of a process job is required to happen: a worker may
\* die at any point of the task.
SpecLive ==
    /\ Init /\ [][Next]_vars
    /\ WF_vars(Tick) /\ WF_vars(SweepQuery) /\ WF_vars(SweepSave)

-----------------------------------------------------------------------------
(* Concurrent deliveries: the same transitions with one more delivery slot, *)
(* so that the upload's job and a reprocess job (or a duplicate delivery)   *)
(* for the same id run at once.  The API writes and the sweep are left to   *)
(* Spec.                                                                    *)

InitDup ==
    /\ now = 0
    /\ db = [d \in DocIds |-> NoDoc]
    /\ store = [d \in DocIds |-> None]
    /\ jobs = [j \in 1..(MaxJobs + 1) |-> IdleJob]
    /\ delivered = 0
    /\ notifications = [d \in DocIds |-> 0]
    /\ sweep = IdleSweep
    /\ last_writer = [d \in DocIds |-> 0]
    /\ verified_snapshot = [d \in DocIds |-> None]
    /\ NoStorage

NextDup ==
    \/ \E d \in DocIds, dt \in DocTypes, ft \in FileTypes, c \in Contents : Upload(d, dt, ft, c)
    \/ \E d \in DocIds : Reprocess(d)
    \/ \E j \in JobIds : J_Load(j)
    \/ \E j \in JobIds : J_MarkProcessing(j)
    \/ \E j \in JobIds, raises \in BOOLEAN : J_Fetch(j, raises)
    \/ \E j \in JobIds, code \in ClientErrorCodes : J_FetchClientError(j, code)
    \/ \E j \in JobIds : J_MarkProcessed(j)
    \/ \E j \in JobIds : J_Notify(j)
    \/ \E j \in JobIds, reset_ok \in BOOLEAN : J_Fail(j, reset_ok)
    \/ Tick

SpecDup == InitDup /\ [][NextDup]_vars

-----------------------------------------------------------------------------
(* Deletion: documents are deleted through the API while their jobs are      *)
(* queued or running.  The clock, the verification and the sweep are left to *)
(* Spec.                                                                     *)

NextDel ==
    \/ \E d \in DocIds, dt \in DocTypes, ft \in FileTypes, c \in Contents : Upload(d, dt, ft, c)
    \/ \E d \in DocIds : Reprocess(d)
    \/ \E d \in DocIds, s3_deleted \in BOOLEAN : Destroy(d, s3_deleted)
    \/ \E j \in JobIds : J_Load(j)
    \/ \E j \in JobIds : J_NotFound(j)
    \/ \E j \in JobIds : J_MarkProcessing(j)
    \/ \E j \in JobIds, raises \in BOOLEAN : J_Fetch(j, raises)
    \/ \E j \in JobIds, code \in ClientErrorCodes : J_FetchClientError(j, code)
    \/ \E j \in JobIds : J_MarkProcessed(j)
    \/ \E j \in JobIds : J_Notify(j)
    \/ \E j \in JobIds, reset_ok \in BOOLEAN : J_Fail(j, reset_ok)

SpecDel == Init /\ [][NextDel]_vars

-----------------------------------------------------------------------------
(* The archival task, with documents stored and cases updated while it runs. *)
(* The cases start in either region.                                         *)

InitArchive ==
    /\ now = 0
    /\ db = [d \in DocIds |-> NoDoc]
    /\ store = [d \in DocIds |-> None]
    /\ jobs = [j \in 1..MaxJobs |-> IdleJob]
    /\ delivered = 0
    /\ notifications = [d \in DocIds |-> 0]
    /\ sweep = IdleSweep
    /\ last_writer = [d \in DocIds |-> 0]
    /\ verified_snapshot = [d \in DocIds |-> None]
    /\ today = 0
    /\ clients \in [ClientIds -> {[NewClient EXCEPT !.region = r] : r \in Regions}]
    /\ files = [d \in FileIds |-> NoDoc]
    /\ s3 = << >>
    /\ archive = IdleArchive
    /\ returned = None

NextArchive ==
    \/ \E d \in FileIds, c \in ClientIds, dt \in DocTypes, f \in FileNames, b \in Contents :
            StoreDocument(d, c, dt, f, b)
    \/ \E d \in FileIds, c \in ClientIds, dt \in DocTypes : CreateFileless(d, c, dt)
    \/ \E d \in FileIds : ResaveDocument(d)
    \/ \E d \in FileIds, b \in Contents : DirectUpload(d, b)
    \/ \E c \in ClientIds, st \in ClientStatuses : UpdateClient(c, st)
    \/ \E n \in DaySteps : DayTick(n)
    \/ ArchiveStart
    \/ ArchiveClient
    \/ \E outcome \in CopyOutcomes : ArchiveCopy(outcome)
    \/ ArchiveReturn

SpecArchive == InitArchive /\ [][NextArchive]_vars

-----------------------------------------------------------------------------
(* The recorded location: documents are created with their storage columns,  *)
(* with and without a file, processed, rejected and swept, and the region of *)
(* their case is changed.                                                    *)

NextLocation ==
    \/ \E d \in DocIds, c \in ClientIds, dt \in DocTypes, ft \in FileTypes, b \in Contents, f \in FileNames :
            UploadStored(d, c, dt, ft, b, f)
    \/ \E d \in DocIds, c \in ClientIds, dt \in DocTypes : CreateDocument(d, c, dt)
    \/ \E d \in DocIds : Reprocess(d)
    \/ \E d \in DocIds : Reject(d)
    \/ \E c \in ClientIds, r \in Regions : MoveClient(c, r)
    \/ \E j \in JobIds : J_Load(j)
    \/ \E j \in JobIds : J_MarkProcessing(j)
    \/ \E j \in JobIds, raises \in BOOLEAN : J_Fetch(j, raises)
    \/ \E j \in JobIds, code \in ClientErrorCodes : J_FetchClientError(j, code)
    \/ \E j \in JobIds : J_MarkProcessed(j)
    \/ \E j \in JobIds : J_Notify(j)
    \/ \E j \in JobIds, reset_ok \in BOOLEAN : J_Fail(j, reset_ok)
    \/ SweepQuery
    \/ SweepSave
    \/ Tick

SpecLocation == Init /\ [][NextLocation]_vars

-----------------------------------------------------------------------------
(* Process jobs over documents with their storage columns, verified and      *)
(* processed again, while the region of their case changes; no failure and   *)
(* no sweep.                                                                 *)

NextFrame ==
    \/ \E d \in DocIds, c \in ClientIds, dt \in DocTypes, ft \in FileTypes, b \in Contents, f \in FileNames :
            UploadStored(d, c, dt, ft, b, f)
    \/ \E d \in DocIds, c \in ClientIds, dt \in DocTypes : CreateDocument(d, c, dt)
    \/ \E d \in DocIds : Reprocess(d)
    \/ \E d \in DocIds, u \in Users, n \in Notes : Verify(d, u, n)
    \/ \E c \in ClientIds, r \in Regions : MoveClient(c, r)
    \/ \E j \in JobIds : J_Load(j)
    \/ \E j \in JobIds : J_MarkProcessing(j)
    \/ \E j \in JobIds, raises \in BOOLEAN : J_Fetch(j, raises)
    \/ \E j \in JobIds, code \in ClientErrorCodes : J_FetchClientError(j, code)
    \/ \E j \in JobIds : J_MarkProcessed(j)
    \/ \E j \in JobIds : J_Notify(j)
    \/ Tick

SpecFrame == Init /\ [][NextFrame]_vars

-----------------------------------------------------------------------------
(* The two sweeps run whole, over documents uploaded through the API or      *)
(* directly, left in processing by a worker, and cases completed long ago.   *)

NextSweeps ==
    \/ \E d \in DocIds, c \in ClientIds, dt \in DocTypes, ft \in FileTypes, b \in Contents, f \in FileNames :
            UploadStored(d, c, dt, ft, b, f)
    \/ \E d \in FileIds, c \in ClientIds, dt \in DocTypes, f \in FileNames, b \in Contents :
            StoreDocument(d, c, dt, f, b)
    \/ \E d \in FileIds, b \in Contents : DirectUpload(d, b)
    \/ \E c \in ClientIds, st \in ClientStatuses : UpdateClient(c, st)
    \/ \E n \in DaySteps : DayTick(n)
    \/ \E j \in JobIds : J_Load(j)
    \/ \E j \in JobIds : J_MarkProcessing(j)
    \/ Tick
    \/ CleanupRun
    \/ ArchiveRun

SpecSweeps == InitArchive /\ [][NextSweeps]_vars

-----------------------------------------------------------------------------
(* Routing and signing: cases with any region tag, documents stored with and *)
(* without a file, and the helpers called on them.                           *)

InitRouting ==
    /\ now = 0
    /\ db = [d \in DocIds |-> NoDoc]
    /\ store = [d \in DocIds |-> None]
    /\ jobs = [j \in 1..MaxJobs |-> IdleJob]
    /\ delivered = 0
    /\ notifications = [d \in DocIds |-> 0]
    /\ sweep = IdleSweep
    /\ last_writer = [d \in DocIds |-> 0]
    /\ verified_snapshot = [d \in DocIds |-> None]
    /\ today = 0
    /\ clients \in [ClientIds -> {[NewClient EXCEPT !.region = r] : r \in RegionTags}]
    /\ files = [d \in FileIds |-> NoDoc]
    /\ s3 = << >>
    /\ archive = IdleArchive
    /\ returned = None

NextRouting ==
    \/ \E d \in FileIds, c \in ClientIds, dt \in DocTypes, f \in FileNames, b \in Contents :
            StoreDocument(d, c, dt, f, b)
    \/ \E d \in FileIds, c \in ClientIds, dt \in DocTypes : CreateFileless(d, c, dt)
    \/ \E c \in ClientIds : GetStorageBackend(c)
    \/ \E tag \in RegionTags : FactoryBackend(tag)
    \/ \E d \in FileIds, e \in Expirations, client_error \in BOOLEAN : GetDownloadUrl(d, e, client_error)
    \/ \E d \in FileIds, e \in Expirations, client_error \in BOOLEAN : GenerateUploadUrl(d, e, client_error)
    \/ \E d \in FileIds, client_error \in BOOLEAN : Download(d, client_error)

SpecRouting == InitRouting /\ [][NextRouting]_vars

-----------------------------------------------------------------------------
(* The extraction of one uploaded document of any type: the document is in   *)
(* the table, its object is stored and its process_document job is queued;   *)
(* the document is verified through the API at any moment.                   *)

InitExtract ==
    /\ now = 0
    /\ \E dt \in AllDocTypes, ft \in FileTypes, c \in Contents :
            /\ ft # "application/pdf" => c = ""
            /\ db = [d \in DocIds |-> NewDocument(dt, ft, 0)]
            /\ store = [d \in DocIds |-> Some(c)]
    /\ jobs = [j \in 1..MaxJobs |-> [IdleJob EXCEPT !.pc = "queued", !.doc_id = 1]]
    /\ delivered = 1
    /\ notifications = [d \in DocIds |-> 0]
    /\ sweep = IdleSweep
    /\ last_writer = [d \in DocIds |-> 0]
    /\ verified_snapshot = [d \in DocIds |-> None]
    /\ NoStorage

NextExtract ==
    \/ \E d \in DocIds, u \in Users, n \in Notes : Verify(d, u, n)
    \/ \E j \in JobIds : J_Load(j)
    \/ \E j \in JobIds : J_MarkProcessing(j)
    \/ \E j \in JobIds, raises \in BOOLEAN : J_Fetch(j, raises)
    \/ \E j \in JobIds, code \in ClientErrorCodes : J_FetchClientError(j, code)
    \/ \E j \in JobIds : J_MarkProcessed(j)
    \/ \E j \in JobIds : J_Notify(j)
    \/ \E j \in JobIds, reset_ok \in BOOLEAN : J_Fail(j, reset_ok)

SpecExtract == InitExtract /\ [][NextExtract]_vars

-----------------------------------------------------------------------------
(* Properties *)

\* The transition table: uploaded -> processing, processing -> processed,
\* processing -> uploaded, processed -> verified, any -> rejected.
TableEdges ==
    { <<"uploaded", "processing">>, <<"processing", "processed">>,
      <<"processing", "uploaded">>, <<"processed", "verified">> }
    \cup { <<s, "rejected">> : s \in STATUS_CHOICES }

\* C1: every change of a document's status is an edge of the transition table.
C1_StatusFollowsTable ==
    [][\A d \in DocIds :
        (db[d] # NoDoc /\ db'[d] # NoDoc /\ db'[d].status # db[d].status)
            => <<db[d].status, db'[d].status>> \in TableEdges]_vars

\* C2: mark_as_processing acts only on an uploaded row and mark_as_processed only
\* on a processing row; called on a row in another status they leave the row as
\* it is.
C2_GuardedTransitions ==
    [][\A j \in JobIds :
        /\ (J_MarkProcessing(j) /\ db[jobs[j].doc_id].status # "uploaded")
                => db'[jobs[j].doc_id] = db[jobs[j].doc_id]
        /\ (J_MarkProcessed(j) /\ db[jobs[j].doc_id].status # "processing")
                => db'[jobs[j].doc_id] = db[jobs[j].doc_id]]_vars

\* C3: a verify call on a row whose status is not processed leaves status,
\* verified_by, verified_at and verification_notes as they are.
C3_VerifyOnlyProcessed ==
    [][\A d \in DocIds, u \in Users, n \in Notes :
        (Verify(d, u, n) /\ db[d].status # "processed")
            => /\ db'[d].status = db[d].status
               /\ db'[d].verified_by = db[d].verified_by
               /\ db'[d].verified_at = db[d].verified_at
               /\ db'[d].verification_notes = db[d].verification_notes]_vars

\* C4: once a row has become verified, its ai_extracted_data and ocr_text are
\* those it held at that moment, in every later state.
C4_VerifiedResultLocked ==
    \A d \in DocIds :
        verified_snapshot[d] # None
            => /\ db[d].ai_extracted_data = verified_snapshot[d][1][1]
               /\ db[d].ocr_text = verified_snapshot[d][1][2]

\* C5: no step changes any column of a row whose status is rejected.
C5_RejectedTerminal ==
    [][\A d \in DocIds :
        (db[d] # NoDoc /\ db[d].status = "rejected") => db'[d] = db[d]]_vars

\* A delivery has recorded a success: its mark_as_processed was saved and no
\* failure path of the same delivery followed.
Recorded(k) ==
    \/ jobs[k].pc = "saved"
    \/ jobs[k].pc = "done" /\ jobs[k].result = "success"

\* C6: when two deliveries for the same id were in flight together and one has
\* recorded its success, the success write of the other leaves ai_extracted_data,
\* ocr_text and processed_at as recorded (it is not made, or carries the same data).
C6_OneExtractionRecorded ==
    [][\A j \in JobIds :
        (/\ J_MarkProcessed(j)
         /\ \E k \in jobs[j].overlaps : jobs[k].doc_id = jobs[j].doc_id /\ Recorded(k))
            => /\ db'[jobs[j].doc_id].ai_extracted_data = db[jobs[j].doc_id].ai_extracted_data
               /\ db'[jobs[j].doc_id].ocr_text = db[jobs[j].doc_id].ocr_text
               /\ db'[jobs[j].doc_id].processed_at = db[jobs[j].doc_id].processed_at]_vars

\* C7: a job that loaded the document in a status other than uploaded ends at
\* once as a success, without a fetch, an extraction, a notification or a write
\* to the row.
C7_DisallowedIsNoOp ==
    [][\A j \in JobIds :
        (/\ jobs[j].pc = "loaded"
         /\ jobs[j].document.status # "uploaded"
         /\ jobs'[j].pc # "loaded")
            => /\ jobs'[j].pc = "done"
               /\ jobs'[j].result = "success"
               /\ jobs'[j].fetches = jobs[j].fetches
               /\ db' = db
               /\ notifications' = notifications]_vars

\* C8: a ClientError of the fetch re-schedules the delivery without writing the
\* row: a delivery is retried at most 3 times and fetches at most 4 times, every
\* failed fetch before the last is followed by a retry, and a delivery waiting
\* for its retry, or failed for good after the 4th fetch with no retry left,
\* leaves the row in processing, the status its own mark_as_processing wrote.
C8_RetryBounded ==
    \A j \in JobIds :
        /\ jobs[j].retries <= 3
        /\ jobs[j].fetches <= 4
        /\ jobs[j].pc \in {"queued", "loaded", "marked"} => jobs[j].fetches = jobs[j].retries
        /\ jobs[j].result = "failed"
            => jobs[j].pc = "done" /\ jobs[j].retries = 3 /\ jobs[j].fetches = 4
        /\ ( /\ (jobs[j].pc = "queued" /\ jobs[j].retries > 0) \/ jobs[j].result = "failed"
             /\ last_writer[jobs[j].doc_id] = j )
            => db[jobs[j].doc_id].status = "processing"

\* C8, witness: a delivery has failed for good after 4 fetches and the row it
\* marked is in processing.
C8_Witness ==
    \E j \in JobIds :
        /\ jobs[j].result = "failed"
        /\ jobs[j].fetches = 4
        /\ last_writer[jobs[j].doc_id] = j
        /\ db[jobs[j].doc_id].status = "processing"

FailureStep(j) ==
    /\ jobs[j].pc \in {"marked", "extracted", "saved"}
    /\ \E reset_ok \in BOOLEAN : J_Fail(j, reset_ok)

C11_NotFoundTerminates ==
    [][\A j \in JobIds :
        (jobs[j].pc = "queued" /\ db[jobs[j].doc_id] = NoDoc /\ J_NotFound(j))
            => /\ jobs'[j].pc = "done"
               /\ jobs'[j].result = "not_found"
               /\ jobs'[j].retries = jobs[j].retries
               /\ jobs'[j].fetches = jobs[j].fetches
               /\ db' = db
               /\ store' = store
               /\ notifications' = notifications]_vars

\* C11, witness: a delivery has returned not found for an id whose row is gone.
C11_Witness ==
    \E j \in JobIds :
        /\ jobs[j].result = "not_found"
        /\ jobs[j].pc = "done"
        /\ db[jobs[j].doc_id] = NoDoc

\* C12: a ClientError of get_object whose code is NoSuchKey or AccessDenied ends
\* the delivery without a retry; only a transient code re-schedules it.
C12_OnlyTransientRetried ==
    [][\A j \in JobIds, code \in {"NoSuchKey", "AccessDenied"} :
        J_FetchClientError(j, code)
            => /\ jobs'[j].pc = "done"
               /\ jobs'[j].retries = jobs[j].retries]_vars

\* A row is in processing and the sweep's threshold for it falls within the
\* hours the clock runs.
StuckWithinHorizon(d) ==
    /\ db[d] # NoDoc
    /\ db[d].status = "processing"
    /\ db[d].updated_at[1] + STALL_HOURS < MaxTime

SweepWrites(d) ==
    /\ SweepSave
    /\ Head(sweep.pending)[1] = d

\* C14: the sweep sets a row to uploaded exactly when, at the moment of its
\* write, the row is in processing with updated_at older than the threshold; a
\* row in any other state is left as it is.
C14_SweepResetsOnlyStuck ==
    [][\A d \in DocIds :
        SweepWrites(d)
            => IF d \in stuck_documents(now)
                 THEN db'[d].status = "uploaded"
                 ELSE db'[d] = db[d]]_vars

\* The four columns of a success transition.
SuccessColumns == {"status", "processed_at", "ai_extracted_data", "ocr_text"}

\* The row of d holds a success that was committed after the copy was loaded.
SuccessAfterLoad(d, copy) ==
    /\ db[d] # NoDoc
    /\ db[d].status = "processed"
    /\ copy.status # "processed" \/ copy.processed_at # db[d].processed_at

\* C15: a write of the sweep, or of the failure handler of a job, to a row
\* holding a success that another worker committed after the writer loaded its
\* copy leaves the columns of that success as committed.
C15_NoLostUpdate ==
    [][\A d \in DocIds :
        ( \/ SweepWrites(d) /\ SuccessAfterLoad(d, Head(sweep.pending)[2])
          \/ \E j \in JobIds :
                /\ jobs[j].doc_id = d
                /\ jobs[j].pc \in {"loaded", "marked", "extracted"}
                /\ J_Fail(j, TRUE)
                /\ last_writer[d] # j
                /\ SuccessAfterLoad(d, jobs[j].document) )
            => \A f \in SuccessColumns : db'[d][f] = db[d][f]]_vars

\* C16: the failure handler of an attempt that has not saved a success leaves
\* ai_extracted_data, ocr_text and processed_at of the row as they are.
C16_FailureKeepsExtraction ==
    [][\A j \in JobIds, reset_ok \in BOOLEAN :
        (jobs[j].pc \in {"loaded", "marked", "extracted"} /\ J_Fail(j, reset_ok))
            => \A f \in SuccessColumns \ {"status"} :
                    db'[jobs[j].doc_id][f] = db[jobs[j].doc_id][f]]_vars

\* C17: when the enqueueing of the notification raises after the success
\* transition was saved, the row keeps status processed and the columns the
\* success transition wrote.
C17_NotifyFailureKeepsSuccess ==
    [][\A j \in JobIds, reset_ok \in BOOLEAN :
        (jobs[j].pc = "saved" /\ J_Fail(j, reset_ok))
            => \A f \in SuccessColumns : db'[jobs[j].doc_id][f] = db[jobs[j].doc_id][f]]_vars

\* A step enqueues one notification for d, made by a job whose success
\* transition for d is saved, or leaves the notifications of d as they are.
NotifiedOnlyAfterSuccess(d) ==
    notifications'[d] # notifications[d]
        => /\ notifications'[d] = notifications[d] + 1
           /\ \E j \in JobIds :
                /\ jobs[j].doc_id = d
                /\ jobs[j].pc = "saved"
                /\ jobs'[j].pc = "done"

\* C18 as stated: notifications are enqueued only after a success transition,
\* and every saved success transition is followed by the enqueueing of exactly
\* one notification when the job moves on.
C18_OneNotificationPerSuccess ==
    [][/\ \A d \in DocIds : NotifiedOnlyAfterSuccess(d)
       /\ \A j \in JobIds :
            (jobs[j].pc = "saved" /\ jobs'[j].pc # "saved")
                => notifications'[jobs[j].doc_id] = notifications[jobs[j].doc_id] + 1]_vars

\* C18 as amended: notifications are enqueued only after a saved success
\* transition, one at a time; a job that returns success has enqueued exactly
\* one, and a job that moves on from its saved success without returning success
\* (the enqueueing raised) has enqueued none.
C18_NotificationOnlyWithSuccess ==
    [][/\ \A d \in DocIds : NotifiedOnlyAfterSuccess(d)
       /\ \A j \in JobIds :
            (jobs[j].pc = "saved" /\ jobs'[j].pc # "saved")
                => IF jobs'[j].result = "success"
                     THEN notifications'[jobs[j].doc_id] = notifications[jobs[j].doc_id] + 1
                     ELSE notifications' = notifications]_vars

\* C18, witness: a job has returned success and its notification is enqueued.
C18_Witness ==
    \E j \in JobIds :
        /\ jobs[j].pc = "done"
        /\ jobs[j].result = "success"
        /\ notifications[jobs[j].doc_id] > 0

\* C19: no delivery ends by raising the store's exception: "failed" is the
\* ClientError that self.retry re-raises once the retries are used up.
C19_NoRawException ==
    \A j \in JobIds : jobs[j].result \in {"none", "success", "not_found", "error"}

\* The keys under which the files of the documents are stored, and the keys the
\* rows record.
OriginalKeys ==
    {storage_key(clients[files[d].client].region, files[d].name) : d \in {e \in FileIds : files[e] # NoDoc}}

RecordedKeys ==
    {files[d].s3_key : d \in {e \in FileIds : files[e] # NoDoc}}

ArchiveStep ==
    \/ ArchiveStart
    \/ ArchiveClient
    \/ \E outcome \in CopyOutcomes : ArchiveCopy(outcome)
    \/ ArchiveReturn

\* C20: a step of the archival task changes no row of a document or a case,
\* removes no object and leaves every stored original with its bytes; the key of
\* the copy it makes for a document is the stored or recorded key of no
\* document, and no object under such a key is written.
C20_ArchiveKeepsOriginals ==
    [][ArchiveStep
        => /\ files' = files /\ db' = db /\ clients' = clients /\ store' = store
           /\ \A k \in DOMAIN s3 : k \in DOMAIN s3'
           /\ \A k \in OriginalKeys \cap DOMAIN s3 : s3'[k] = s3[k]
           /\ \A k \in DOMAIN s3' :
                (k \notin DOMAIN s3 \/ s3'[k] # s3[k]) => k \notin OriginalKeys \cup RecordedKeys
           /\ (archive.pc = "clients" /\ archive.documents # << >>)
                => archive_key(Head(archive.documents)[2].client, Head(archive.documents)[2].s3_key)
                        \notin OriginalKeys \cup RecordedKeys]_vars

\* C20, witness: the task has copied a document of an old completed case and
\* returned, and the original of every document is stored with its key.
C20_Witness ==
    /\ archive.visited # {}
    /\ archive.pc = "idle"
    /\ archive.result # None
    /\ archive.result[1] > 0
    /\ \E d \in archive.visited : archive_key(files[d].client, files[d].s3_key) \in DOMAIN s3
    /\ OriginalKeys \subseteq DOMAIN s3
    /\ \A d \in FileIds : files[d] # NoDoc

\* The loaded row of the document the loop of the archival task is at.
ArchiveDocument == Head(archive.documents)[2]

\* The elements of a sequence
Range(seq) == {seq[i] : i \in DOMAIN seq}

\* C21: the archival task attempts the copy of a document exactly when, at that
\* moment, the case of the document is completed with a completion timestamp
\* older than 90 days and the row names a bucket and a key; its queries select
\* every such case and every document of it; a run that selected no case copies
\* nothing and returns archived_count 0.
C21_CopiesExactlyOldCompleted ==
    [][/\ \A outcome \in CopyOutcomes :
            ArchiveCopy(outcome)
                => ( outcome # "skipped"
                        <=> /\ ArchiveDocument.client \in old_clients(today)
                            /\ ArchiveDocument.s3_bucket # ""
                            /\ ArchiveDocument.s3_key # << >> )
       /\ ArchiveStart => Range(archive'.old_clients) = old_clients(today)
       /\ ArchiveClient
            => {r[1] : r \in Range(archive'.documents)} = documents_of(Head(archive.old_clients))
       /\ (ArchiveReturn /\ archive.visited = {})
            => archive'.result = Some(0)]_vars

\* C22: a copy that fails leaves the loop running with the documents and the
\* cases still to visit and with the count as it is; the count grows by one
\* with every copy made and by nothing else, and the task returns it.
C22_FailedCopySkipped ==
    [][/\ \A outcome \in {"client_error", "raised"} :
            ArchiveCopy(outcome)
                => /\ archive'.pc = "clients"
                   /\ archive'.documents = Tail(archive.documents)
                   /\ archive'.old_clients = archive.old_clients
                   /\ archive'.archived_count = archive.archived_count
       /\ ArchiveCopy("copied") => archive'.archived_count = archive.archived_count + 1
       /\ ArchiveCopy("skipped") => archive'.archived_count = archive.archived_count
       /\ ArchiveReturn => archive'.result = Some(archive.archived_count)]_vars

\* The five extraction strategies, by the document_category they return.
Strategies == {"identity", "financial", "educational", "employment", "generic"}

\* The strategy of a document type by the lists of the dispatch: the types not
\* listed for one of the first four strategies have the generic strategy.
StrategyOf(document_type) ==
    CASE document_type \in {"passport", "photo", "birth_certificate"} -> "identity"
      [] document_type \in {"bank_statement", "tax_return", "financial_proof"} -> "financial"
      [] document_type \in {"degree", "transcript", "english_test"} -> "educational"
      [] document_type \in {"employment_letter", "payslip", "resume"} -> "employment"
      [] OTHER -> "generic"

C29_MarkProcessedRecords ==
    [][\A j \in JobIds :
        (/\ J_MarkProcessed(j)
         /\ TruthyDict(jobs[j].extracted_data)
         /\ TruthyText(jobs[j].ocr_text))
            => /\ db'[jobs[j].doc_id].status = "processed"
               /\ db'[jobs[j].doc_id].processed_at # None
               /\ db'[jobs[j].doc_id].ai_extracted_data = jobs[j].extracted_data
               /\ db'[jobs[j].doc_id].ocr_text = jobs[j].ocr_text]_vars

\* C29, witness: a job has saved its success transition with a non-empty text
\* and the row holds it.
C29_Witness ==
    \E j \in JobIds :
        /\ jobs[j].pc = "saved"
        /\ last_writer[jobs[j].doc_id] = j
        /\ db[jobs[j].doc_id].status = "processed"
        /\ db[jobs[j].doc_id].processed_at # None
        /\ TruthyDict(db[jobs[j].doc_id].ai_extracted_data)
        /\ TruthyText(db[jobs[j].doc_id].ocr_text)

\* C30: a verify call with non-empty notes leaves the row with status verified,
\* verified_by the user, verified_at set and verification_notes the notes given,
\* and leaves ai_extracted_data, ocr_text and processed_at as they are.
C30_VerifyRecords ==
    [][\A d \in DocIds, u \in Users, n \in Notes :
        (Verify(d, u, n) /\ TruthyText(n))
            => /\ db'[d].status = "verified"
               /\ db'[d].verified_by = Some(u)
               /\ db'[d].verified_at # None
               /\ db'[d].verification_notes = n
               /\ db'[d].ai_extracted_data = db[d].ai_extracted_data
               /\ db'[d].ocr_text = db[d].ocr_text
               /\ db'[d].processed_at = db[d].processed_at]_vars

\* C30, witness: a processed row with an extraction result has been verified
\* with notes.
C30_Witness ==
    \E d \in DocIds :
        /\ db[d] # NoDoc
        /\ db[d].status = "verified"
        /\ db[d].verified_by # None
        /\ db[d].verification_notes = Some("ok")
        /\ db[d].processed_at # None
        /\ TruthyText(db[d].ocr_text)

\* The India and the Australia tag of each routing function: the choices of
\* Client.region for the method of the case, 'in' and 'au' in any case of the
\* letters for the factory.
IndiaTag(call, tag) ==
    IF call = "Client.get_storage_backend" THEN tag = "IN" ELSE tag \in {"in", "IN", "In"}

AustraliaTag(call, tag) ==
    IF call = "Client.get_storage_backend" THEN tag = "AU" ELSE tag \in {"au", "AU"}

India == [bucket_name |-> "migration-zone-docs-in", region_name |-> "ap-south-1",
          location |-> <<"documents", "in">>]
Australia == [bucket_name |-> "migration-zone-docs-au", region_name |-> "ap-southeast-2",
              location |-> <<"documents", "au">>]

RoutingCalls == {"Client.get_storage_backend", "get_storage_backend"}

C26_SignedLifetimeBounded ==
    (returned # None /\ returned[1].call \notin RoutingCalls /\ returned[1].value # None)
        => returned[1].value[1].expires_in <= AWS_QUERYSTRING_EXPIRE

\* C27: no step changes the recorded location (bucket, key, region) of a
\* document that exists before and after the step.
C27_LocationImmutable ==
    [][\A d \in DocIds :
        (files[d] # NoDoc /\ files'[d] # NoDoc)
            => Location(files'[d]) = Location(files[d])]_vars

\* C28: a document whose status is not pending has a bucket and a key recorded.
C28_LocationSetUnlessPending ==
    \A d \in DocIds :
        (db[d] # NoDoc /\ db[d].status # "pending")
            => /\ files[d] # NoDoc
               /\ files[d].s3_bucket # ""
               /\ files[d].s3_key # << >>

\* C23: a run of either sweep from the state a run of it has just left changes
\* neither the document records nor the contents of the object store: the
\* second of two runs in immediate succession leaves what the first left.  (A
\* run of the stuck-task sweep writes rows only, a run of the archival sweep
\* writes the bucket only, over rows and cases it leaves as they are.)
C23_SweepsIdempotent ==
    [][/\ CleanupRun
            => /\ UNCHANGED <<clients, s3, store>>
               /\ (cleanup_temp_files.db)' = db'
               /\ (cleanup_temp_files.files)' = files'
       /\ ArchiveRun
            => /\ UNCHANGED <<db, files, clients, store, today>>
               /\ archive_clients(s3', OrderDesc(old_clients(today)), 0).s3 = s3']_vars

\* C23 witness: both sweeps have run and acted: the archival run copied an
\* object, and the stuck-task run reset the document a worker left in processing.
C23_Witness ==
    /\ archive.result # None
    /\ archive.result[1] >= 1
    /\ \E d \in DocIds, j \in JobIds :
            /\ jobs[j].doc_id = d
            /\ jobs[j].document # NoDoc
            /\ jobs[j].document.status = "processing"
            /\ db[d] # NoDoc
            /\ db[d].status = "uploaded"

\* C31: mark_as_processing leaves the document in status processing, in memory
\* and in the table, and writes status and updated_at only: every other column
\* of the row and its recorded storage location are as before the call.
C31_MarkProcessingFrame ==
    [][\A j \in JobIds :
        J_MarkProcessing(j) =>
            LET d == jobs[j].doc_id IN
            /\ db'[d].status = "processing"
            /\ jobs'[j].document.status = "processing"
            /\ db'[d].updated_at = Some(now)
            /\ \A f \in AllFields \ {"status", "updated_at"} : db'[d][f] = db[d][f]
            /\ files'[d] = files[d]]_vars

\* C31 witness: mark_as_processing was the last write of a verified document
\* that holds results and records a location.
C31_Witness ==
    \E j \in JobIds :
        LET d == jobs[j].doc_id IN
        /\ jobs[j].pc = "marked"
        /\ last_writer[d] = j
        /\ db[d].status = "processing"
        /\ db[d].verified_by # None
        /\ db[d].ocr_text # None
        /\ files[d].s3_key # << >>

\* C32: a process job fetches from the bucket, key and region that the row of
\* its document records.
C32_FetchUsesRecordedLocation ==
    [][\A j \in JobIds :
        ( \/ \E raises \in BOOLEAN : J_Fetch(j, raises)
          \/ \E code \in ClientErrorCodes : J_FetchClientError(j, code) )
            => jobs[j].location = loaded_location(files[jobs[j].doc_id])]_vars

C34_TimestampsPresent ==
    \A d \in DocIds :
        db[d] # NoDoc =>
            /\ db[d].status = "processed" => db[d].processed_at # None
            /\ db[d].status = "verified"
                    => db[d].verified_at # None /\ db[d].verified_by # None

\* C34 witness: a document that was processed is verified.
C34_Witness ==
    \E d \in DocIds :
        /\ db[d] # NoDoc
        /\ db[d].status = "verified"
        /\ db[d].verified_by # None
        /\ db[d].processed_at # None

\* C35: once a verification is recorded on a document, no step changes its
\* verified_by, verified_at or verification_notes.
C35_VerificationKept ==
    [][\A d \in DocIds :
        (db[d] # NoDoc /\ db[d].verified_at # None /\ db'[d] # NoDoc)
            => /\ db'[d].verified_by = db[d].verified_by
               /\ db'[d].verified_at = db[d].verified_at
               /\ db'[d].verification_notes = db[d].verification_notes]_vars

\* C36: a run of the stuck-task sweep with nothing between its steps changes
\* status and updated_at of the documents it selects and nothing else of them,
\* changes no other document, enqueues no job and no notification, and reports
\* as reset_count the number of documents it reset.
C36_SweepFrame ==
    [][CleanupRun =>
        LET stuck == stuck_documents(now) IN
        /\ \A d \in stuck :
                /\ \A f \in AllFields \ {"status", "updated_at"} : db'[d][f] = db[d][f]
                /\ files'[d] = files[d]
        /\ \A d \in DocIds \ stuck : db'[d] = db[d]
        /\ \A d \in FileIds \ stuck : files'[d] = files[d]
        /\ jobs' = jobs
        /\ delivered' = delivered
        /\ notifications' = notifications
        /\ returned'[1].value[1].reset_count = Cardinality(stuck)]_vars

\* C37: a step that removes the record of a document leaves its stored object
\* removed as well.
C37_DeleteRemovesObject ==
    [][\A d \in DocIds :
        (db[d] # NoDoc /\ db'[d] = NoDoc) => store'[d] = Deleted]_vars

\* C38: when a document is created with a file, the key its row records is the
\* key under which the storage backend of the region of its case wrote the
\* file, and the bucket holds the uploaded bytes under the recorded key.
C38_RecordedKeyIsStoredKey ==
    [][\A d \in DocIds :
        (files[d] = NoDoc /\ files'[d] # NoDoc /\ files'[d].name # << >>)
            => /\ files'[d].s3_key
                    = storage_key(clients[files'[d].client].region, files'[d].name)
               /\ files'[d].s3_key \in DOMAIN s3'
               /\ store'[d] = Some(s3'[files'[d].s3_key])]_vars

====
